---- MODULE Spec2Model ----
(***************************************************************************)
(* Room page of edge-chat (src/unnamed/part_000) and its composer          *)
(* (src/src/components/chat-input.tsx).                                    *)
(*                                                                         *)
(* The page keeps the message list of a room in the query cache under the  *)
(* key ["messages", roomId].  Three writers race on that entry: the        *)
(* optimistic append of sendMessage.onMutate (with its rollback in         *)
(* onError), the authoritative fetch of the messages query (started on     *)
(* mount and again by onSuccess's invalidateQueries), and the realtime     *)
(* chat.message handler.  A countdown (timeRemaining) armed from the ttl   *)
(* query pushes the router away when it reaches 0, as does chat.destroy.   *)
(*                                                                         *)
(* Every handler is one action: the event loop runs a callback to its end  *)
(* before the next one starts.  onMutate awaits cancelQueries, but that    *)
(* promise settles within the microtasks of the task that called mutate,   *)
(* and every other handler modelled here is started by a task of its own   *)
(* (a network response, a realtime event, a timer, a key press), so none   *)
(* of them runs between the cancellation and the append.                   *)
(*                                                                         *)
(* The variables marked "history" record what has happened; no action      *)
(* reads them.  SpecCache follows the cache of a page whose composer sends *)
(* text, SpecCompose the sends of every kind of draft in a room nobody     *)
(* else writes to, SpecHistory is SpecCache with the deliveries recorded   *)
(* per id, SpecTimer follows the countdown, SpecView the countdown with    *)
(* the page's own sends, SpecComposer the state of the composer.           *)
(***************************************************************************)
EXTENDS Integers, Sequences, FiniteSets, TLC

(***************************************************************************)
(* Bounds of the model.                                                    *)
(***************************************************************************)
\* sends the composer issues in one view lifetime
MaxSends == 2
\* messages other participants post while the view is open
MaxOthers == 1
\* largest TTL (seconds) the ttl query reports
MaxTTL == 3
\* deliveries of the chat.destroy event (at-least-once channel)
MaxDestroy == 2
\* image files the user picks or pastes in one view lifetime
MaxSelects == 2

VARIABLES
  roomId,         \* params.roomId of the mounted page
  cache,          \* queryClient data under ["messages", r], for every room r
  fetch,          \* messages query of roomId: "idle", "inflight", "responded"
  fetchResp,      \* the list the transport answered with (while "responded")
  fetchEpoch,     \* history: optimistic appends done when the fetch started
  lastFetch,      \* history: how the last fetch ended: "none", "ok", "failed", "cancelled"
  status,         \* per client id: the state of its sendMessage mutation
  variables,      \* per client id: the mutation's variables (newMessage)
  context,        \* per client id: what onMutate returned ({previousMessages})
  server,         \* the messages the server has accepted for roomId, in order
  absorbed,       \* history: some chat.message found its id in the list
  delivered,      \* history: ids whose event reached onData at least once
  early,          \* history: own ids whose event arrived before onSuccess/onError
  others,         \* number of messages the other participants have posted
  mounted,        \* the page is mounted (subscribed, timers alive)
  ttlQuery,       \* ttl query: "loading", "success", "error"
  ttlData,        \* data of the ttl query: <<>> (undefined) or <<ttl>>
  armDirty,       \* the [ttlData] effect has to run (its dependency changed)
  timeRemaining,  \* useState<number | null>: <<>> (null) or <<seconds>>
  cdDirty,        \* the [timeRemaining, router] effect has to run
  interval,       \* the setInterval of the countdown effect is alive
  ticks,          \* history: interval callbacks run since arming
  navCount,       \* history: calls of router.push("/?destroyed=true")
  destroyed,      \* the server has published chat.destroy for roomId
  destroySeen,    \* history: chat.destroy events that reached onData
  input,          \* composer: useState("") of the text field
  imagePreview,   \* composer: useState<string | null>: <<>> (null) or <<file>>
  imageData,      \* composer: useState<{base64, type} | null>: <<>> or <<file>>
  isUploading,    \* composer: useState(false)
  compressing,    \* files whose reader.onload / img.onload is still to come
  selected,       \* number of files handed to handleImageSelect so far
  onSendArgs      \* history: what the last call of onSend saw, <<>> before it

cacheVars == <<cache, fetch, fetchResp, fetchEpoch, lastFetch, status, variables,
               context, server, absorbed, delivered, early, others>>
timerVars == <<ttlQuery, ttlData, armDirty, timeRemaining, cdDirty, interval,
               ticks, navCount, destroyed, destroySeen>>
composerVars == <<input, imagePreview, imageData, isUploading, compressing,
                  selected, onSendArgs>>
vars == <<roomId, mounted, cacheVars, timerVars, composerVars>>

(***************************************************************************)
(* Values.                                                                 *)
(***************************************************************************)
Rooms == {"r1", "r2"}
\* useUsername(): the display name of this browser
username == "me"
\* crypto.randomUUID(): the n-th id the page generates
OwnIds == 1..MaxSends
\* ids generated by the other participants' browsers
OtherIds == (MaxSends + 1)..(MaxSends + MaxOthers)
\* id of a message that was in the room before the page was opened
HistoryId == 0

\* `old: { messages: Message[] } | undefined`
Undefined == [undefined |-> TRUE]
Data(list) == [messages |-> list]
IsUndefined(d) == d = Undefined

\* the composer's state when Enter is pressed: the input and whether imageData
\* is set (the encoded image is an opaque payload)
Drafts == { [input |-> "",   image |-> FALSE],
            [input |-> "hi", image |-> FALSE],
            [input |-> "",   image |-> TRUE] }

\* no mutation variables / no context (the mutation has not run onMutate)
NoVariables == [none |-> TRUE]
NoContext == [none |-> TRUE]

(***************************************************************************)
(* Messages.                                                               *)
(***************************************************************************)
\* chat-input.tsx handleSend: `if (!input.trim() && !imageData) return`
CanSend(d) == ~(d.input = "" /\ ~d.image)

\* page onSend: the variables handed to sendMessage; "(camera)" stands for the
\* camera emoji the page substitutes for an empty text
OnSend(id, d) ==
  [id |-> id,
   text |-> IF d.input # "" THEN d.input ELSE IF d.image THEN "(camera)" ELSE "",
   imageBase64 |-> IF d.image THEN "base64" ELSE "undefined",
   imageType |-> IF d.image THEN "image/jpeg" ELSE "undefined"]

\* onMutate: the optimistic Message; Date.now() is kept as the clock it was
\* read from
OptimisticMessage(newMessage, rid) ==
  [id |-> newMessage.id, sender |-> username, text |-> newMessage.text,
   timestamp |-> "client", roomId |-> rid,
   imageBase64 |-> newMessage.imageBase64, imageType |-> newMessage.imageType]

\* the server's record of a posted message: the client's id, the server's clock
ServerMessage(newMessage, sender, rid) ==
  [id |-> newMessage.id, sender |-> sender, text |-> newMessage.text,
   timestamp |-> "server", roomId |-> rid,
   imageBase64 |-> newMessage.imageBase64, imageType |-> newMessage.imageType]

\* a message of another participant
PeerMessage(id, rid) ==
  ServerMessage([id |-> id, text |-> "yo", imageBase64 |-> "undefined",
                 imageType |-> "undefined"], "peer", rid)

Ids(list) == {list[k].id : k \in 1..Len(list)}
Count(id, list) == Cardinality({k \in 1..Len(list) : list[k].id = id})
\* the list a cache entry shows: `messages?.messages`
Messages(d) == IF IsUndefined(d) THEN <<>> ELSE d.messages
ById(list, id) == list[CHOOSE k \in 1..Len(list) : list[k].id = id]

(***************************************************************************)
(* The cache updaters of the page.                                         *)
(***************************************************************************)
\* (mutant) the updater forgets to spread old.messages
OnMutateDropsOld(old, newMessage, rid) ==
  Data(<<OptimisticMessage(newMessage, rid)>>)

\* onMutate's setQueryData updater
OnMutateUpdater(old, newMessage, rid) ==
  IF IsUndefined(old)
  THEN Data(<<OptimisticMessage(newMessage, rid)>>)
  ELSE Data(Append(old.messages, OptimisticMessage(newMessage, rid)))

\* onError: `if (context?.previousMessages) setQueryData(key, previousMessages)`
OnErrorData(current, ctx) ==
  IF ~IsUndefined(ctx.previousMessages) THEN ctx.previousMessages ELSE current

\* (mutant) the updater without its "Avoid duplicates" test
OnChatMessageNoDedup(old, data) ==
  IF IsUndefined(old) THEN Data(<<data>>) ELSE Data(Append(old.messages, data))

\* (mutant) the updater puts a new message at the head of the list
OnChatMessageAtHead(old, data) ==
  IF IsUndefined(old) THEN Data(<<data>>)
  ELSE IF \E k \in 1..Len(old.messages) : old.messages[k].id = data.id
       THEN old
       ELSE Data(<<data>> \o old.messages)

\* chat.message: the setQueryData updater of onData
OnChatMessage(old, data) ==
  IF IsUndefined(old) THEN Data(<<data>>)
  ELSE IF \E k \in 1..Len(old.messages) : old.messages[k].id = data.id
       THEN old
       ELSE Data(Append(old.messages, data))

\* (mutant) the answer is appended to the list instead of replacing it
QueryDataAppends(old, resp) ==
  IF IsUndefined(old) THEN resp ELSE Data(old.messages \o resp.messages)

\* the messages query resolves: its data becomes what queryFn returned
QueryData(old, resp) == resp

\* (mutant) the query key leaves out roomId: the pages of all rooms share
\* one entry, the one that holds the list of the room visited before
SharedKey(rid) == "r2"

\* queryKey: ["messages", roomId], the entry every cache operation names
MessagesKey(rid) == rid

\* (mutant) a failed fetch resets the query's data
QueryErrorClears(old) == Undefined

\* the messages query fails: useQuery keeps the data it has
QueryErrorData(old) == old

\* (mutant) onMutate without its cancelQueries call
NoCancelQueries(f) == f

\* cancelQueries({queryKey: ["messages", roomId]}): a fetch in flight is dropped
CancelQueries(f) == "idle"

(***************************************************************************)
(* The initial state: the page has just mounted.  Both queries have been   *)
(* started, nothing has been sent, the room may hold an earlier message,   *)
(* and the cache still holds the list of the room visited before.  The     *)
(* rooms are interchangeable, so the page is the one of the first.         *)
(***************************************************************************)
Init ==
  /\ roomId = "r1"
  /\ cache = [r \in Rooms |-> IF r = roomId THEN Undefined
                               ELSE Data(<<PeerMessage(HistoryId, r)>>)]
  /\ fetch = "inflight"
  /\ fetchResp = Undefined
  /\ fetchEpoch = 0
  /\ lastFetch = "none"
  /\ status = [i \in OwnIds |-> "unused"]
  /\ variables = [i \in OwnIds |-> NoVariables]
  /\ context = [i \in OwnIds |-> NoContext]
  /\ server \in {<<>>, <<PeerMessage(HistoryId, roomId)>>}
  /\ absorbed = FALSE
  /\ delivered = {}
  /\ early = {}
  /\ others = 0
  /\ mounted = TRUE
  /\ ttlQuery = "loading"
  /\ ttlData = <<>>
  /\ armDirty = FALSE
  /\ timeRemaining = <<>>
  /\ cdDirty = FALSE
  /\ interval = FALSE
  /\ ticks = 0
  /\ navCount = 0
  /\ destroyed = FALSE
  /\ destroySeen = 0
  /\ input = ""
  /\ imagePreview = <<>>
  /\ imageData = <<>>
  /\ isUploading = FALSE
  /\ compressing = {}
  /\ selected = 0
  /\ onSendArgs = <<>>

\* ids whose chat.message event the server has published since the page
\* subscribed: every POST it accepted
Channel == {i \in OwnIds : status[i] \in {"accepted", "ok"}}
             \cup (MaxSends + 1)..(MaxSends + others)

\* optimistic appends done so far
Sent == Cardinality({i \in OwnIds : status[i] # "unused"})

(***************************************************************************)
(* The messages query (lines 82-91) and the transport behind it.           *)
(***************************************************************************)
\* the transport answers GET messages with the server's list as of now
FetchRespond ==
  /\ fetch = "inflight"
  /\ fetch' = "responded"
  /\ fetchResp' = Data(server)
  /\ UNCHANGED composerVars
  /\ UNCHANGED <<roomId, mounted, cache, fetchEpoch, lastFetch, status, variables,
                 context, server, absorbed, delivered, early, others, timerVars>>

\* queryFn resolves: the answer becomes the cache entry
FetchSuccess ==
  /\ fetch = "responded"
  /\ cache' = [cache EXCEPT ![MessagesKey(roomId)] =
                 QueryData(cache[MessagesKey(roomId)], fetchResp)]
  /\ fetch' = "idle"
  /\ fetchResp' = Undefined
  /\ lastFetch' = "ok"
  /\ UNCHANGED composerVars
  /\ UNCHANGED <<roomId, mounted, fetchEpoch, status, variables, context, server,
                  absorbed, delivered, early, others, timerVars>>

\* queryFn rejects: the cache entry keeps its data
FetchFail ==
  /\ fetch \in {"inflight", "responded"}
  /\ fetch' = "idle"
  /\ fetchResp' = Undefined
  /\ lastFetch' = "failed"
  /\ cache' = [cache EXCEPT ![MessagesKey(roomId)] =
                 QueryErrorData(cache[MessagesKey(roomId)])]
  /\ UNCHANGED composerVars
  /\ UNCHANGED <<roomId, mounted, fetchEpoch, status, variables, context,
                 server, absorbed, delivered, early, others, timerVars>>

(***************************************************************************)
(* sendMessage (lines 96-149), called by the composer's handleSend.        *)
(***************************************************************************)
\* handleSend -> onSend -> mutate -> onMutate
Send(d) ==
  LET id == Sent + 1
      newMessage == OnSend(id, d)
  IN /\ mounted
     /\ CanSend(d)
     /\ id \in OwnIds
     /\ fetch' = CancelQueries(fetch)
     /\ fetchResp' = IF fetch' = "idle" THEN Undefined ELSE fetchResp
     /\ lastFetch' = IF fetch # "idle" /\ fetch' = "idle" THEN "cancelled" ELSE lastFetch
     /\ context' = [context EXCEPT ![id] =
                    [previousMessages |-> cache[MessagesKey(roomId)]]]
     /\ cache' = [cache EXCEPT ![MessagesKey(roomId)] =
                    OnMutateUpdater(cache[MessagesKey(roomId)], newMessage, roomId)]
     /\ variables' = [variables EXCEPT ![id] = newMessage]
     /\ status' = [status EXCEPT ![id] = "pending"]
     /\ UNCHANGED composerVars
     /\ UNCHANGED <<roomId, mounted, fetchEpoch, server, absorbed, delivered, early,
                    others, timerVars>>

\* the server accepts the POST: it records the message and publishes chat.message
ServerAccept(i) ==
  /\ status[i] = "pending"
  /\ status' = [status EXCEPT ![i] = "accepted"]
  /\ server' = Append(server, ServerMessage(variables[i], username, roomId))
  /\ UNCHANGED composerVars
  /\ UNCHANGED <<roomId, mounted, cache, fetch, fetchResp, fetchEpoch, lastFetch,
                 variables, context, absorbed, delivered, early, others, timerVars>>

\* invalidateQueries({queryKey: ["messages", roomId]}): the query is refetched
\* while the page observes it (a fetch in flight is replaced by the new one)
InvalidateQueries(f) == IF mounted THEN "inflight" ELSE f

\* mutationFn resolves -> onSuccess
SendSuccess(i) ==
  /\ status[i] = "accepted"
  /\ status' = [status EXCEPT ![i] = "ok"]
  /\ context' = [context EXCEPT ![i] = NoContext]
  /\ variables' = [variables EXCEPT ![i] = NoVariables]
  /\ fetch' = InvalidateQueries(fetch)
  /\ fetchResp' = IF mounted THEN Undefined ELSE fetchResp
  /\ fetchEpoch' = IF mounted THEN Sent ELSE fetchEpoch
  /\ UNCHANGED composerVars
  /\ UNCHANGED <<roomId, mounted, cache, lastFetch, server,
                 absorbed, delivered, early, others, timerVars>>

\* mutationFn rejects (the server did not accept the POST) -> onError
SendFail(i) ==
  /\ status[i] = "pending"
  /\ status' = [status EXCEPT ![i] = "failed"]
  /\ cache' = [cache EXCEPT ![MessagesKey(roomId)] =
                 OnErrorData(cache[MessagesKey(roomId)], context[i])]
  /\ context' = [context EXCEPT ![i] = NoContext]
  /\ variables' = [variables EXCEPT ![i] = NoVariables]
  /\ UNCHANGED composerVars
  /\ UNCHANGED <<roomId, mounted, fetch, fetchResp, fetchEpoch, lastFetch,
                 server, absorbed, delivered, early, others, timerVars>>

(***************************************************************************)
(* The realtime channel (lines 154-180) and the other participants.        *)
(***************************************************************************)
\* another participant's POST is accepted and published
OtherPost ==
  /\ others < MaxOthers
  /\ others' = others + 1
  /\ server' = Append(server, PeerMessage(MaxSends + others + 1, roomId))
  /\ UNCHANGED composerVars
  /\ UNCHANGED <<roomId, mounted, cache, fetch, fetchResp, fetchEpoch, lastFetch,
                 status, variables, context, absorbed, delivered, early, timerVars>>

\* onData({event: "chat.message", data}): any published event, any number of
\* times, in any order
OnData(i) ==
  /\ mounted
  /\ i \in Channel
  /\ cache' = [cache EXCEPT ![MessagesKey(roomId)] =
                 OnChatMessage(cache[MessagesKey(roomId)], ById(server, i))]
  /\ absorbed' = (absorbed \/ i \in Ids(Messages(cache[MessagesKey(roomId)])))
  /\ UNCHANGED composerVars
  /\ UNCHANGED <<roomId, mounted, fetch, fetchResp, fetchEpoch, lastFetch, status,
                 variables, context, server, others, timerVars>>

DeliverMessage(i) ==
  /\ OnData(i)
  /\ UNCHANGED <<delivered, early>>

\* the same delivery, recorded per id
DeliverRecorded(i) ==
  /\ OnData(i)
  /\ delivered' = delivered \cup {i}
  /\ early' = IF i \in OwnIds /\ status[i] \in {"pending", "accepted"}
               THEN early \cup {i} ELSE early

\* (mutant) the countdown effect returns no cleanup
NoCleanup(running) == running

\* the countdown effect's cleanup: `return () => clearInterval(interval)`
Cleanup(running) == FALSE

\* the page is unmounted (the navigation completes, or the user leaves): the
\* effects' cleanups run and the realtime subscription ends
Unmount ==
  /\ mounted
  /\ mounted' = FALSE
  /\ interval' = Cleanup(interval)
  /\ armDirty' = FALSE
  /\ cdDirty' = FALSE
  /\ UNCHANGED composerVars
  /\ UNCHANGED <<roomId, cacheVars, ttlQuery, ttlData, timeRemaining, ticks,
                 navCount, destroyed, destroySeen>>

\* the drafts without an image
TextDrafts == {d \in Drafts : ~d.image}

\* the messages query and the sends of the drafts in D
SendStep(D) ==
  \/ FetchRespond
  \/ FetchSuccess
  \/ FetchFail
  \/ \E d \in D : Send(d)
  \/ \E i \in OwnIds : ServerAccept(i)
  \/ \E i \in OwnIds : SendSuccess(i)
  \/ \E i \in OwnIds : SendFail(i)

CacheStep ==
  \/ SendStep(TextDrafts)
  \/ OtherPost
  \/ \E i \in OwnIds \cup OtherIds : DeliverMessage(i)

HistoryStep ==
  \/ SendStep(TextDrafts)
  \/ OtherPost
  \/ \E i \in OwnIds \cup OtherIds : DeliverRecorded(i)

ComposeStep ==
  \/ SendStep(Drafts)
  \/ \E i \in OwnIds : DeliverMessage(i)

\* the message cache of a page that stays mounted
SpecCache == Init /\ [][CacheStep]_vars

\* the same, with the deliveries recorded per id
SpecHistory == Init /\ [][HistoryStep]_vars

\* the sends of every kind of draft, with their own events
SpecCompose == Init /\ [][ComposeStep]_vars

(***************************************************************************)
(* The ttl query (lines 43-56) and the countdown (lines 58-77).            *)
(***************************************************************************)
\* the TTLs the transport may report (a key without expiry reports -1)
TTLValues == (0 - 1)..MaxTTL

\* queryFn of the ttl query resolves with {ttl: t}
TtlSuccess(t) ==
  /\ ttlQuery = "loading"
  /\ ttlQuery' = "success"
  /\ ttlData' = <<t>>
  /\ armDirty' = mounted
  /\ UNCHANGED composerVars
  /\ UNCHANGED <<roomId, mounted, cacheVars, timeRemaining, cdDirty, interval,
                 ticks, navCount, destroyed, destroySeen>>

\* queryFn of the ttl query rejects: ttlData stays undefined
TtlFail ==
  /\ ttlQuery = "loading"
  /\ ttlQuery' = "error"
  /\ UNCHANGED composerVars
  /\ UNCHANGED <<roomId, mounted, cacheVars, ttlData, armDirty, timeRemaining,
                 cdDirty, interval, ticks, navCount, destroyed, destroySeen>>

\* useEffect(..., [ttlData]): `if (ttlData?.ttl !== undefined) setTimeRemaining(ttlData.ttl)`
ArmValue(current, data) == IF data # <<>> THEN data ELSE current

ArmEffect ==
  /\ mounted
  /\ armDirty
  /\ armDirty' = FALSE
  /\ timeRemaining' = ArmValue(timeRemaining, ttlData)
  /\ cdDirty' = (cdDirty \/ timeRemaining' # timeRemaining)
  /\ UNCHANGED composerVars
  /\ UNCHANGED <<roomId, mounted, cacheVars, ttlQuery, ttlData, interval, ticks,
                 navCount, destroyed, destroySeen>>

\* what the body of the countdown effect does with the value it sees:
\* nothing (null or negative), router.push (0), or setInterval (positive)
CountdownBody(t) ==
  IF t = <<>> \/ t[1] < 0 THEN "return"
  ELSE IF t[1] = 0 THEN "push"
  ELSE "setInterval"

\* useEffect(..., [timeRemaining, router]): the previous run's cleanup
\* (clearInterval), then the body
CountdownEffect ==
  /\ mounted
  /\ cdDirty
  /\ cdDirty' = FALSE
  /\ interval' = (CountdownBody(timeRemaining) = "setInterval")
  /\ navCount' = IF CountdownBody(timeRemaining) = "push" THEN navCount + 1 ELSE navCount
  /\ UNCHANGED composerVars
  /\ UNCHANGED <<roomId, mounted, cacheVars, ttlQuery, ttlData, armDirty,
                 timeRemaining, ticks, destroyed, destroySeen>>

\* (mutant) the floor test is off by one: 2 is taken straight to 0
TickUpdaterOffByOne(prev) ==
  IF prev = <<>> \/ prev[1] <= 2
  THEN [value |-> <<0>>, clear |-> TRUE]
  ELSE [value |-> <<prev[1] - 1>>, clear |-> FALSE]

\* (mutant) the updater without its `prev <= 1` branch
TickUpdaterNoFloor(prev) == [value |-> <<prev[1] - 1>>, clear |-> FALSE]

\* the updater of the interval callback: the next value, and whether it
\* called clearInterval(interval)
TickUpdater(prev) ==
  IF prev = <<>> \/ prev[1] <= 1
  THEN [value |-> <<0>>, clear |-> TRUE]
  ELSE [value |-> <<prev[1] - 1>>, clear |-> FALSE]

\* the interval fires (the timer exists until a cleanup or the updater clears it)
Tick ==
  /\ interval
  /\ ticks <= MaxTTL
  /\ ticks' = ticks + 1
  /\ timeRemaining' = TickUpdater(timeRemaining).value
  /\ interval' = ~TickUpdater(timeRemaining).clear
  /\ cdDirty' = (cdDirty \/ timeRemaining' # timeRemaining)
  /\ UNCHANGED composerVars
  /\ UNCHANGED <<roomId, mounted, cacheVars, ttlQuery, ttlData, armDirty, navCount,
                 destroyed, destroySeen>>

\* the room is destroyed (this page's destroyRoom mutation, lines 187-191, or
\* another participant's): the server publishes chat.destroy
DestroyRoom ==
  /\ ~destroyed
  /\ destroyed' = TRUE
  /\ UNCHANGED composerVars
  /\ UNCHANGED <<roomId, mounted, cacheVars, ttlQuery, ttlData, armDirty,
                 timeRemaining, cdDirty, interval, ticks, navCount, destroySeen>>

\* what onData does to the interval on chat.destroy: the handler only pushes
OnDestroyInterval(running) == running

\* onData({event: "chat.destroy"}): router.push("/?destroyed=true")
DeliverDestroy ==
  /\ mounted
  /\ destroyed
  /\ destroySeen < MaxDestroy
  /\ destroySeen' = destroySeen + 1
  /\ navCount' = navCount + 1
  /\ interval' = OnDestroyInterval(interval)
  /\ UNCHANGED composerVars
  /\ UNCHANGED <<roomId, mounted, cacheVars, ttlQuery, ttlData, armDirty,
                 timeRemaining, cdDirty, ticks, destroyed>>

TimerStep ==
  \/ \E t \in TTLValues : TtlSuccess(t)
  \/ TtlFail
  \/ ArmEffect
  \/ CountdownEffect
  \/ Tick
  \/ DestroyRoom
  \/ DeliverDestroy

\* the lifecycle timer of a page, from its mount to its unmount
NextTimer == TimerStep \/ Unmount

SpecTimer == Init /\ [][NextTimer]_vars

\* the whole page without the other participants: the messages query,
\* sendMessage, the realtime echo of the own messages, the timer, the teardown
ViewStep ==
  \/ SendStep(TextDrafts)
  \/ \E i \in OwnIds : DeliverMessage(i)
  \/ TimerStep
  \/ Unmount

\* the timer together with the page's message handling
SpecView == Init /\ [][ViewStep]_vars

(***************************************************************************)
(* The composer (chat-input.tsx).  An image file is the number of the      *)
(* selection that brought it; its object URL and its encoded payload are   *)
(* both written as that number.  onSend is the page's callback; here only  *)
(* what it was called with is recorded.                                    *)
(***************************************************************************)
pageVars == <<roomId, mounted, cacheVars, timerVars>>

\* what the user can have typed: nothing, white space, a text
Inputs == {"", " ", "hi"}
\* input.trim()
Trim(t) == IF t = " " THEN "" ELSE t

\* the draft handleSend sees: `!input.trim() && !imageData`
CurrentDraft == [input |-> Trim(input), image |-> imageData # <<>>]

\* onChange of the text field: setInput(e.target.value)
SetInput(t) ==
  /\ t # input
  /\ input' = t
  /\ UNCHANGED <<imagePreview, imageData, isUploading, compressing, selected,
                 onSendArgs, pageVars>>

\* handleImageSelect(file), up to reader.readAsDataURL(file): the preview is
\* set at once, the payload is left to the callbacks
HandleImageSelect ==
  /\ selected < MaxSelects
  /\ selected' = selected + 1
  /\ isUploading' = TRUE
  /\ imagePreview' = <<selected'>>
  /\ compressing' = compressing \cup {selected'}
  /\ UNCHANGED <<input, imageData, onSendArgs, pageVars>>

\* reader.onload and img.onload of file f have run: setImageData({base64,
\* type}) and setIsUploading(false), whatever the preview shows by now
ImgOnload(f) ==
  /\ f \in compressing
  /\ compressing' = compressing \ {f}
  /\ imageData' = <<f>>
  /\ isUploading' = FALSE
  /\ UNCHANGED <<input, imagePreview, selected, onSendArgs, pageVars>>

\* removeImage, from the button shown on the preview
RemoveImage ==
  /\ imagePreview # <<>>
  /\ imagePreview' = <<>>
  /\ imageData' = <<>>
  /\ UNCHANGED <<input, isUploading, compressing, selected, onSendArgs, pageVars>>

\* handleSend, from the Enter key or the Send button
HandleSend ==
  /\ CanSend(CurrentDraft)
  /\ onSendArgs' = [text |-> input, image |-> imageData, preview |-> imagePreview]
  /\ input' = ""
  /\ imagePreview' = <<>>
  /\ imageData' = <<>>
  /\ UNCHANGED <<isUploading, compressing, selected, pageVars>>

ComposerStep ==
  \/ \E t \in Inputs : SetInput(t)
  \/ HandleImageSelect
  \/ \E f \in 1..MaxSelects : ImgOnload(f)
  \/ RemoveImage
  \/ HandleSend

\* the composer on its own
SpecComposer == Init /\ [][ComposerStep]_vars

\* the whole page
Next ==
  \/ ComposerStep
  \/ SendStep(Drafts)
  \/ OtherPost
  \/ \E i \in OwnIds \cup OtherIds : DeliverRecorded(i)
  \/ TimerStep
  \/ Unmount

Spec == Init /\ [][Next]_vars

(***************************************************************************)
(* Properties.                                                             *)
(***************************************************************************)
\* the list the page shows for its room
RoomState == Messages(cache[roomId])
AllIds == {HistoryId} \cup OwnIds \cup OtherIds
\* the send of i is in flight
InFlight(i) == status[i] \in {"pending", "accepted"}
\* this step is onMutate's append for i / onError for i / onSuccess for i
AppendStep(i) == status[i] = "unused" /\ status'[i] = "pending"
ErrorStep(i) == status[i] = "pending" /\ status'[i] = "failed"
SuccessStep(i) == status[i] = "accepted" /\ status'[i] = "ok"
\* this step writes the answer of a fetch into the cache
FetchWriteStep == fetch = "responded" /\ fetch' = "idle" /\ lastFetch' = "ok"

\* C1: in every reachable state the message list of every room holds no two
\* entries with the same id, whatever the interleaving of optimistic sends,
\* (duplicated, reordered) chat.message deliveries and fetch answers.
C1_UniqueIds ==
  \A r \in Rooms : \A id \in AllIds : Count(id, Messages(cache[r])) <= 1

\* C1 witness: a chat.message event found its id in the list, which holds
\* the optimistic copy of a published own message beside another entry.
C1_Witness ==
  /\ absorbed
  /\ Len(RoomState) >= 2
  /\ \E i \in OwnIds \cap Channel :
       Count(i, RoomState) = 1 /\ ById(RoomState, i).timestamp = "client"

\* quiescence: no send in flight, no fetch in flight and the last one
\* answered, every published event delivered at least once
Quiescent ==
  /\ \A i \in OwnIds : ~InFlight(i)
  /\ fetch = "idle"
  /\ lastFetch = "ok"
  /\ Channel \subseteq delivered

\* C2: at quiescence the ids in RoomState are exactly the ids the server
\* accepted for the room: no accepted message is missing, no failed one present.
C2_QuiescentSetCorrect == Quiescent => Ids(RoomState) = Ids(server)

\* C3: when a send fails, the cache entry after onError is exactly the entry
\* onMutate found before its append (also when that entry was undefined).
C3_RollbackExact ==
  [][\A i \in OwnIds : ErrorStep(i) => cache'[roomId] = context[i].previousMessages]_vars

\* C4: onMutate's append leaves the prior list (the empty list if there was
\* none) with exactly one new entry at the tail, carrying the id, the sender
\* name, the text and image fields of the send and the room's id.
C4_AppendAtTail ==
  [][\A i \in OwnIds : AppendStep(i) =>
        LET old == RoomState
            new == Messages(cache'[roomId])
        IN /\ ~IsUndefined(cache'[roomId])
           /\ Len(new) = Len(old) + 1
           /\ SubSeq(new, 1, Len(old)) = old
           /\ new[Len(new)].id = i
           /\ new[Len(new)].sender = username
           /\ new[Len(new)].text = variables'[i].text
           /\ new[Len(new)].imageBase64 = variables'[i].imageBase64
           /\ new[Len(new)].imageType = variables'[i].imageType
           /\ new[Len(new)].roomId = roomId]_vars

\* C4 witness: a pending send with an image sits at the tail of a list that
\* already held an entry.
C4_Witness ==
  \E i \in OwnIds :
    /\ status[i] = "pending"
    /\ context[i] = [previousMessages |-> Data(SubSeq(RoomState, 1, Len(RoomState) - 1))]
    /\ Len(RoomState) >= 2
    /\ RoomState[Len(RoomState)].id = i
    /\ RoomState[Len(RoomState)].imageBase64 = "base64"
    /\ RoomState[Len(RoomState)].text = "(camera)"

\* C5: a fetch whose answer is written into the cache was started after the
\* latest optimistic append: a fetch in flight at an append is never written.
C5_NoStaleFetchWrite ==
  [][FetchWriteStep => fetchEpoch = Sent]_vars

\* C5 witness: an append cancelled the fetch that was in flight, and its
\* entry is in the list.
C5_Witness ==
  /\ lastFetch = "cancelled"
  /\ status[1] = "pending"
  /\ Count(1, RoomState) = 1

\* C6: once the chat.message event of an own id arrived while its send was
\* in flight, the list holds exactly one entry with that id from then on.
C6_OneCopyAfterEarlyEvent ==
  \A i \in early : Count(i, RoomState) = 1

\* C7: onSuccess starts a fetch of the room's messages, and when a fetch
\* answer holding the id of a succeeded send is written, the list holds
\* exactly one entry with that id.
C7_RefreshNoDuplicate ==
  [][/\ \A i \in OwnIds : (SuccessStep(i) /\ mounted) =>
                               (fetch' = "inflight" /\ fetchResp' = Undefined)
     /\ FetchWriteStep =>
          \A i \in OwnIds : (status[i] = "ok" /\ i \in Ids(Messages(fetchResp))) =>
                               Count(i, Messages(cache'[roomId])) = 1]_vars

\* C7 witness: after a succeeded send the refresh has been written: the
\* list is the server's, with the sent id once, beside another entry.
C7_Witness ==
  \E i \in OwnIds :
    /\ status[i] = "ok"
    /\ fetch = "idle"
    /\ lastFetch = "ok"
    /\ cache[roomId] = Data(server)
    /\ Len(server) >= 2
    /\ Count(i, RoomState) = 1

\* the messages a chat.message event may carry
EventMessages ==
  {ServerMessage(OnSend(i, d), username, roomId) : i \in OwnIds, d \in {e \in Drafts : CanSend(e)}}
    \cup {PeerMessage(j, roomId) : j \in OtherIds \cup {HistoryId}}

\* C8: the chat.message updater, on any reachable cache entry and any
\* message m: an entry with m's id present leaves the entry unchanged,
\* otherwise m is added at the tail and the rest keeps content and order;
\* applying m twice gives what applying it once gives.
C8_MergeIdempotent ==
  \A m \in EventMessages :
    LET old == cache[roomId]
        once == OnChatMessage(old, m)
    IN /\ m.id \in Ids(Messages(old)) => once = old
       /\ m.id \notin Ids(Messages(old)) => once = Data(Append(Messages(old), m))
       /\ OnChatMessage(once, m) = once

\* C8 witness: an event found its id in the list (a no-op), and the event of
\* a peer's message put it at the tail, behind an optimistic entry.
C8_Witness ==
  /\ absorbed
  /\ Len(RoomState) >= 2
  /\ RoomState[Len(RoomState)].id \in OtherIds
  /\ RoomState[Len(RoomState) - 1].timestamp = "client"

\* C9: armed with n > 0 and no destroy signal, each tick takes one second off
\* until 0 is reached after n ticks; the value is never negative, no tick
\* follows, and router.push has been called exactly once when the countdown
\* effect has seen the 0, never before and never twice.
C9_CountdownOnce ==
  (ttlData # <<>> /\ timeRemaining # <<>> /\ destroySeen = 0) =>
     (ttlData[1] > 0 =>
        /\ timeRemaining[1] = ttlData[1] - ticks
        /\ timeRemaining[1] >= 0
        /\ navCount <= 1
        /\ timeRemaining[1] > 0 => navCount = 0
        /\ (timeRemaining[1] = 0 /\ mounted /\ ~cdDirty) => navCount = 1)

\* C9 witness: armed with more than one second, ticked down to 0, pushed once.
C9_Witness ==
  /\ ttlData # <<>> /\ ttlData[1] > 1
  /\ ticks = ttlData[1]
  /\ timeRemaining = <<0>>
  /\ destroySeen = 0
  /\ navCount = 1

\* C10: the delivery of chat.destroy calls router.push at once, and after it
\* no tick occurs and the countdown value does not change.
C10_DestroyStopsTicking ==
  [][/\ destroySeen' > destroySeen => navCount' = navCount + 1
     /\ destroySeen > 0 =>
          (ticks' = ticks /\ (timeRemaining # <<>> => timeRemaining' = timeRemaining))]_vars

\* the timer has come to rest in an open view that has the server's TTL and
\* has received no destroy signal: both effects have run and no interval is set
TimerAtRest ==
  /\ mounted
  /\ ttlData # <<>>
  /\ ~armDirty /\ ~cdDirty /\ ~interval
  /\ destroySeen = 0

\* C11: whatever TTL the server reports, the countdown alone ends in the
\* teardown navigation: in an open view without a destroy signal the timer
\* never comes to rest before router.push has been called.
C11_CountdownTerminates == TimerAtRest => navCount >= 1

\* C12: timeRemaining is set once, from null to the TTL the ttl query holds;
\* every later change is a tick that takes exactly 1 off a value above 0.  No
\* step of the messages query, of sendMessage or of the realtime handler
\* changes it.
C12_ArmOnceThenDecrement ==
  [][timeRemaining' # timeRemaining =>
       IF timeRemaining = <<>>
       THEN ttlData # <<>> /\ timeRemaining' = ttlData
       ELSE /\ timeRemaining[1] > 0
            /\ timeRemaining' = <<timeRemaining[1] - 1>>
            /\ ticks' = ticks + 1]_vars

\* C12 witness: armed with more than one second, one tick taken, and in the
\* meantime a message sent and confirmed and the list fetched again.
C12_Witness ==
  /\ ttlData # <<>> /\ ttlData[1] > 1
  /\ timeRemaining = <<ttlData[1] - 1>>
  /\ ticks = 1
  /\ \E i \in OwnIds : status[i] = "ok"
  /\ lastFetch = "ok"

\* C13: a negative countdown value is in the condition of an expired one: no
\* interval is set, no tick has changed or will change it, it is the value the
\* server reported, and once the countdown effect has seen it router.push has
\* been called, as it is for the value 0.
C13_NegativeIsExpired ==
  (timeRemaining # <<>> /\ timeRemaining[1] < 0) =>
     /\ ~interval
     /\ ticks = 0
     /\ timeRemaining = ttlData
     /\ (mounted /\ ~cdDirty) => navCount >= 1

\* the messages query settles with an error
FetchErrorStep == fetch # "idle" /\ fetch' = "idle" /\ lastFetch' = "failed"

C15_NoTickAfterUnmount ==
  [][/\ (mounted /\ ~mounted') => ~interval'
     /\ ~mounted => /\ ticks' = ticks
                    /\ timeRemaining' = timeRemaining
                    /\ navCount' = navCount]_vars

\* C15 witness: the page was left while the countdown was running.
C15_Witness ==
  /\ ~mounted
  /\ timeRemaining # <<>> /\ timeRemaining[1] > 0
  /\ ticks >= 1
  /\ navCount = 0

\* C16: no step of the page of room r (optimistic append, rollback, refresh,
\* cancellation, fetch result, realtime merge) changes the cache entry of
\* another room.
C16_OtherRoomsUnchanged ==
  [][\A r \in Rooms \ {roomId} : cache'[r] = cache[r]]_vars

\* C16 witness: one send rolled back, one confirmed and refreshed, a realtime
\* event merged, and the list of the other room is the one held at the start.
C16_Witness ==
  /\ \E i \in OwnIds : status[i] = "failed"
  /\ \E i \in OwnIds : status[i] = "ok"
  /\ lastFetch = "ok"
  /\ absorbed
  /\ Len(RoomState) >= 2
  /\ \A r \in Rooms \ {roomId} : cache[r] = Data(<<PeerMessage(HistoryId, r)>>)

\* C17: the step that tears the room down, the delivery of chat.destroy or
\* the countdown effect that finds 0, leaves no message of the room in the
\* cache.
C17_DestroyClearsList ==
  [][navCount' > navCount => Messages(cache'[roomId]) = <<>>]_vars

\* C18: the failure handler of a send takes only that send's optimistic entry
\* out of the list: every message of another sender in the list before the
\* handler runs is in the list after it.
C18_RollbackKeepsPeers ==
  [][\A i \in OwnIds : ErrorStep(i) =>
       \A j \in OtherIds \cup {HistoryId} :
          j \in Ids(RoomState) => j \in Ids(Messages(cache'[roomId]))]_vars

\* C19: in one view lifetime router.push to the teardown page is called at
\* most once, however ticks and chat.destroy deliveries interleave.
C19_NavigateAtMostOnce == navCount <= 1

\* C20: as long as a send has not resolved (neither onSuccess nor onError has
\* run for it), its optimistic entry is in the list, also when another send
\* is refreshed or rolled back in the meantime.
C20_PendingEntryStays ==
  \A i \in OwnIds : InFlight(i) => Count(i, RoomState) = 1

\* C21: a send that has failed and whose entry is out of the list stays out of
\* it: no later step, in particular no rollback of another failed send, puts
\* the entry back.
C21_FailedStaysOut ==
  [][\A i \in OwnIds :
       (status[i] = "failed" /\ i \notin Ids(RoomState))
          => i \notin Ids(Messages(cache'[roomId]))]_vars

\* C22: the composer holds an image payload only while a preview is shown,
\* and every image handed to onSend is the one whose preview was shown when
\* the user sent.
C22_ImageOnlyWithPreview ==
  /\ imageData # <<>> => imagePreview # <<>>
  /\ (onSendArgs # <<>> /\ onSendArgs.image # <<>>)
        => onSendArgs.preview = onSendArgs.image

====
